---- MODULE Spec2Model ----
(***************************************************************************)
(* A model of nestjs-trpc's AppRouterHost, of its path resolution utility  *)
(* (findTsConfigFile, resolvePathWithAliases) and of the file injection of *)
(* TRPCGenerator (injectFilesContent, regex and AST variants) and of the   *)
(* generation run that uses it (generateSchemaFile).                       *)
(*                                                                         *)
(* Text is modelled as a sequence of tokens.  A path is a sequence of      *)
(* one-character strings; a TypeScript file is a sequence of lexical       *)
(* tokens (strings), laid out one statement per line.  POSIX path          *)
(* semantics (node:path on a POSIX host) are modelled.                     *)
(***************************************************************************)
EXTENDS Integers, Sequences, FiniteSets, TLC

VARIABLES
    \* ---- AppRouterHost and TrpcPanelController
    appRouterField,   \* AppRouterHost._appRouter
    setHistory,       \* the routers passed to the setter so far (history)
    lastCall,         \* the last operation on the host and what it returned
    ctrlAppRouter,    \* TrpcPanelController.appRouter
    panelResponse,    \* what the last request to /panel was answered with
    \* ---- resolvePathWithAliases
    filePath, pathAliases, basePath, resolved,
    \* ---- findTsConfigFile
    startPath, tsConfigDirs, found,
    \* ---- TRPCGenerator.injectFilesContent
    version, moduleCallerFilePath, tsConfigText, injectFiles,
    appRouterSourceFile, sourceFile0, injectLog, injectPc,
    \* ---- TRPCGenerator.generateSchemaFile
    schemaImports,    \* the names of the schemaImports option
    savedFile,        \* what saveOrOverrideFile last wrote to disk
    genCalls,         \* how many calls of generateSchemaFile were made
    genFailures,      \* how many of them raised an error
    genRun            \* the last call: where it failed, what it did (history)

hostVars == <<appRouterField, setHistory, lastCall, ctrlAppRouter, panelResponse>>
pathVars == <<filePath, pathAliases, basePath, resolved>>
findVars == <<startPath, tsConfigDirs, found>>
injectVars == <<version, moduleCallerFilePath, tsConfigText, injectFiles,
                appRouterSourceFile, sourceFile0, injectLog, injectPc>>
genVars == <<schemaImports, savedFile, genCalls, genFailures, genRun>>
vars == <<hostVars, pathVars, findVars, injectVars, genVars>>

(***************************************************************************)
(* Values shared by the parts of the model.                                *)
(***************************************************************************)
Undefined == "undefined"
Null == "null"
Throws == "throws"
NotRun == "notrun"

(***************************************************************************)
(* AppRouterHost                                                           *)
(***************************************************************************)
\* How many times the setter is called in one behaviour.
MaxSets == 3

\* The routers the application may create: objects, hence truthy values.
Routers == {"routerA", "routerB"}

\* JavaScript truthiness of the values the field can hold.
Truthy(v) == v \notin {Undefined, Null}

isRouterReadyAlways(field) == TRUE

\* isRouterReady(): this._appRouter !== undefined
isRouterReady(field) == field # Undefined

\* get appRouter(): throws when !this._appRouter, else returns it
appRouterGetter(field) == IF ~Truthy(field) THEN Throws ELSE field

getRouterSafeViaGetter(field) == appRouterGetter(field)

\* getRouterSafe(): return this._appRouter
getRouterSafe(field) == field

setterKeepsFirst(field, schemaRef) ==
    IF field = Undefined THEN schemaRef ELSE field

\* set appRouter(schemaRef): this._appRouter = schemaRef
appRouterSetter(field, schemaRef) == schemaRef

notHostVars == <<pathVars, findVars, injectVars, genVars>>
notPathVars == <<hostVars, findVars, injectVars, genVars>>
notFindVars == <<hostVars, pathVars, injectVars, genVars>>
notInjectVars == <<hostVars, pathVars, findVars, genVars>>

HostIdle ==
    /\ appRouterField = Undefined
    /\ setHistory = <<>>
    /\ lastCall = [op |-> "none", result |-> NotRun]
    /\ ctrlAppRouter = Undefined
    /\ panelResponse = NotRun

SetAppRouter(r) ==
    /\ Len(setHistory) < MaxSets
    /\ appRouterField' = appRouterSetter(appRouterField, r)
    /\ setHistory' = Append(setHistory, r)
    /\ lastCall' = [op |-> "set", result |-> Undefined]
    /\ UNCHANGED <<ctrlAppRouter, panelResponse, notHostVars>>

GetAppRouter ==
    /\ lastCall' = [op |-> "get", result |-> appRouterGetter(appRouterField)]
    /\ UNCHANGED <<appRouterField, setHistory, ctrlAppRouter, panelResponse, notHostVars>>

IsRouterReady ==
    /\ lastCall' = [op |-> "isRouterReady",
                    result |-> IF isRouterReady(appRouterField) THEN "true" ELSE "false"]
    /\ UNCHANGED <<appRouterField, setHistory, ctrlAppRouter, panelResponse, notHostVars>>

GetRouterSafe ==
    /\ lastCall' = [op |-> "getRouterSafe",
                    result |-> getRouterSafe(appRouterField)]
    /\ UNCHANGED <<appRouterField, setHistory, ctrlAppRouter, panelResponse, notHostVars>>

\* TrpcPanelController.onModuleInit
OnModuleInit ==
    /\ ctrlAppRouter' = getRouterSafe(appRouterField)
    /\ panelResponse' = NotRun
    /\ UNCHANGED <<appRouterField, setHistory, lastCall, notHostVars>>

\* TrpcPanelController.panel: one request to /panel
Panel ==
    /\ IF Truthy(ctrlAppRouter)
       THEN /\ panelResponse' = "panel"
            /\ UNCHANGED ctrlAppRouter
       ELSE IF isRouterReady(appRouterField)
       THEN IF appRouterGetter(appRouterField) = Throws
            THEN /\ panelResponse' = "exception"
                 /\ UNCHANGED ctrlAppRouter
            ELSE /\ ctrlAppRouter' = appRouterGetter(appRouterField)
                 /\ panelResponse' = "panel"
       ELSE /\ panelResponse' = "notReady"
            /\ UNCHANGED ctrlAppRouter
    /\ UNCHANGED <<appRouterField, setHistory, lastCall, notHostVars>>

HostNext ==
    \/ \E r \in Routers : SetAppRouter(r)
    \/ GetAppRouter
    \/ IsRouterReady
    \/ GetRouterSafe
    \/ OnModuleInit
    \/ Panel

\* The router the host should hold after the sets made so far.
LastSet == IF setHistory = <<>> THEN Undefined ELSE setHistory[Len(setHistory)]

(***************************************************************************)
(* node:path on a POSIX host.  A path is a sequence of one-character       *)
(* strings.                                                                *)
(***************************************************************************)
\* process.cwd(), used by path.resolve when no argument is absolute
Cwd == <<"/", "w">>

\* String.prototype.startsWith
StartsWith(str, prefix) ==
    /\ Len(prefix) <= Len(str)
    /\ SubSeq(str, 1, Len(prefix)) = prefix

\* String.prototype.slice(n)
Slice(str, n) == SubSeq(str, n + 1, Len(str))

\* path.isAbsolute
IsAbsolute(path) == Len(path) > 0 /\ path[1] = "/"

\* The pieces of a text between the occurrences of a separator (split).
RECURSIVE SplitOn(_, _, _, _)
SplitOn(str, sep, i, cur) ==
    IF i > Len(str) THEN <<cur>>
    ELSE IF str[i] = sep THEN <<cur>> \o SplitOn(str, sep, i + 1, <<>>)
    ELSE SplitOn(str, sep, i + 1, Append(cur, str[i]))

\* The segments of a path between its "/" separators.
SplitSegments(path) == SplitOn(path, "/", 1, <<>>)

\* normalizeString of an absolute path: drops "", "." and resolves ".."
RECURSIVE NormalizeSegments(_, _, _)
NormalizeSegments(segs, i, out) ==
    IF i > Len(segs) THEN out
    ELSE IF segs[i] = <<>> \/ segs[i] = <<".">>
         THEN NormalizeSegments(segs, i + 1, out)
    ELSE IF segs[i] = <<".", ".">>
         THEN NormalizeSegments(segs, i + 1,
                  IF out = <<>> THEN out ELSE SubSeq(out, 1, Len(out) - 1))
    ELSE NormalizeSegments(segs, i + 1, Append(out, segs[i]))

RECURSIVE JoinSegments(_, _)
JoinSegments(segs, i) ==
    IF i > Len(segs) THEN <<>>
    ELSE (IF i = 1 THEN <<>> ELSE <<"/">>) \o segs[i] \o JoinSegments(segs, i + 1)

\* path.resolve(from, to): the rightmost absolute argument wins, the
\* working directory is prepended when none is absolute; the result is
\* normalized and has no trailing separator.
PathResolve(from, to) ==
    LET joined == IF IsAbsolute(to) THEN to
                  ELSE IF to = <<>> THEN from
                  ELSE from \o <<"/">> \o to
        full == IF IsAbsolute(joined) THEN joined ELSE Cwd \o <<"/">> \o joined
    IN  <<"/">> \o JoinSegments(NormalizeSegments(SplitSegments(full), 1, <<>>), 1)

\* The index of the "/" that ends the directory part (0: none), scanning
\* from the end and skipping trailing separators, as path.dirname does.
RECURSIVE DirnameEnd(_, _, _)
DirnameEnd(path, i, matchedSlash) ==
    IF i < 2 THEN 0
    ELSE IF path[i] = "/"
         THEN IF ~matchedSlash THEN i ELSE DirnameEnd(path, i - 1, matchedSlash)
    ELSE DirnameEnd(path, i - 1, FALSE)

\* path.dirname
Dirname(path) ==
    IF Len(path) = 0 THEN <<".">>
    ELSE LET end == DirnameEnd(path, Len(path), TRUE)
         IN  IF end = 0 THEN (IF path[1] = "/" THEN <<"/">> ELSE <<".">>)
             ELSE IF path[1] = "/" /\ end = 2 THEN <<"/", "/">>
             ELSE SubSeq(path, 1, end - 1)

\* path.parse(p).root
ParseRoot(path) == IF IsAbsolute(path) THEN <<"/">> ELSE <<>>

\* path.join(dir, name): path.normalize(dir + "/" + name), dir absolute
PathJoin(dir, name) ==
    <<"/">> \o JoinSegments(
        NormalizeSegments(SplitSegments(dir \o <<"/">> \o name), 1, <<>>), 1)

(***************************************************************************)
(* resolvePathWithAliases                                                  *)
(***************************************************************************)
\* str.replace(/\/\*$/, '/'): a trailing "/*" becomes "/"
StripStar(str) ==
    IF Len(str) >= 2 /\ str[Len(str) - 1] = "/" /\ str[Len(str)] = "*"
    THEN SubSeq(str, 1, Len(str) - 1)
    ELSE str

\* The value of an entry of the paths object is whatever JSON.parse gave:
\* an array of strings, or null, on which 'targets.length' raises a
\* TypeError.
TargetsLengthThrows(entry) == entry.targetsNull

\* The first entry, in Object.entries order, that has a target and whose
\* prefix the path starts with (0: none; -1: the loop raised an error on
\* the way): the for loop over the aliases.
RECURSIVE FirstMatchingAlias(_, _, _)
FirstMatchingAlias(path, aliases, i) ==
    IF i > Len(aliases) THEN 0
    ELSE IF TargetsLengthThrows(aliases[i]) THEN -1
    ELSE IF Len(aliases[i].targets) = 0
         THEN FirstMatchingAlias(path, aliases, i + 1)
    ELSE IF StartsWith(path, StripStar(aliases[i].alias)) THEN i
    ELSE FirstMatchingAlias(path, aliases, i + 1)

PathValue(path) == [kind |-> "path", path |-> path]
PathNull == [kind |-> "null", path |-> <<>>]
PathNotRun == [kind |-> "notrun", path |-> <<>>]

resolveAliasesBeforeAbsolute(path, aliases, base) ==
    LET m == FirstMatchingAlias(path, aliases, 1)
    IN  IF m = -1 THEN PathNull
        ELSE IF m # 0
        THEN PathValue(PathResolve(base, StripStar(aliases[m].targets[1])
                           \o Slice(path, Len(StripStar(aliases[m].alias)))))
        ELSE IF IsAbsolute(path) THEN PathValue(path)
        ELSE PathValue(PathResolve(base, path))

\* The documented reading "null if it couldn't be resolved": null for a
\* path that is neither absolute, nor relative, nor under an alias.
resolveNullWhenUnmatched(path, aliases, base) ==
    IF IsAbsolute(path) THEN PathValue(path)
    ELSE LET m == FirstMatchingAlias(path, aliases, 1)
         IN  IF m = -1 THEN PathNull
             ELSE IF m # 0
             THEN PathValue(PathResolve(base, StripStar(aliases[m].targets[1])
                                \o Slice(path, Len(StripStar(aliases[m].alias)))))
             ELSE IF StartsWith(path, <<".", "/">>) \/ StartsWith(path, <<".", ".", "/">>)
                  THEN PathValue(PathResolve(base, path))
             ELSE PathNull

\* resolvePathWithAliases(filePath, pathAliases, basePath); an error raised
\* inside the try block is caught and null is returned
resolvePathWithAliases(path, aliases, base) ==
    IF IsAbsolute(path) THEN PathValue(path)
    ELSE LET m == FirstMatchingAlias(path, aliases, 1)
         IN  IF m = -1 THEN PathNull
             ELSE IF m # 0
             THEN LET aliasPrefix == StripStar(aliases[m].alias)
                      pathSuffix == Slice(path, Len(aliasPrefix))
                      targetPrefix == StripStar(aliases[m].targets[1])
                      relativePath == targetPrefix \o pathSuffix
                  IN  PathValue(PathResolve(base, relativePath))
             ELSE IF StartsWith(path, <<".", "/">>) \/ StartsWith(path, <<".", ".", "/">>)
                  THEN PathValue(PathResolve(base, path))
             ELSE PathValue(PathResolve(base, path))

\* ---- the inputs the resolver is run on
MaxAliases == 2

AliasEntries == {
    [alias |-> <<"@", "/", "*">>,           targetsNull |-> FALSE,
        targets |-> << <<".", "/", "s", "/", "*">> >>],
    [alias |-> <<"@", "/", "h", "/", "*">>, targetsNull |-> FALSE,
        targets |-> << <<".", "/", "l", "/", "*">> >>],
    [alias |-> <<".", "/", "*">>,           targetsNull |-> FALSE,
        targets |-> << <<".", "/", "s", "/", "*">> >>],
    [alias |-> <<"~", "/", "*">>,           targetsNull |-> FALSE,
        targets |-> <<>>],
    [alias |-> <<"/", "r", "/", "*">>,      targetsNull |-> FALSE,
        targets |-> << <<".", "/", "s", "/", "*">> >>],
    [alias |-> <<"#", "/", "*">>,           targetsNull |-> FALSE,
        targets |-> << <<".", "/", "l", "/", "*">>, <<".", "/", "s", "/", "*">> >>],
    \* "%/*": null
    [alias |-> <<"%", "/", "*">>,           targetsNull |-> TRUE,
        targets |-> <<>>] }

\* The paths objects of a tsconfig.json: entries in key order, keys distinct.
AliasMaps ==
    { m \in UNION { [1..n -> AliasEntries] : n \in 0..MaxAliases } :
        \A i, j \in 1..Len(m) : i # j => m[i].alias # m[j].alias }

FilePaths == {
    <<"@", "/", "x">>,
    <<"@", "/", "h", "/", "x">>,
    <<"#", "/", "x">>,
    <<"~", "/", "x">>,
    <<".", "/", "x">>,
    <<".", ".", "/", "x">>,
    <<"x">>,
    <<"/", "r", "/", "x">>,
    <<"/", "r", "/", ".", ".", "/", "x">> }

BasePaths == { <<"/", "p">>, <<"/", "p", "q">> }

PathInit ==
    /\ filePath \in FilePaths
    /\ pathAliases \in AliasMaps
    /\ basePath \in BasePaths
    /\ resolved = PathNotRun

Resolve ==
    /\ resolved = PathNotRun
    /\ resolved' = resolvePathWithAliases(filePath, pathAliases, basePath)
    /\ UNCHANGED <<filePath, pathAliases, basePath, notPathVars>>

(***************************************************************************)
(* findTsConfigFile                                                        *)
(***************************************************************************)
TsConfigName == <<"t", "s", "c", "o", "n", "f", "i", "g", ".", "j", "s", "o", "n">>

\* fs.existsSync(tsConfigPath), in a file system whose directories `dirs`
\* hold a tsconfig.json
ExistsTsConfig(tsConfigPath, dirs) ==
    \E d \in dirs : PathJoin(d, TsConfigName) = tsConfigPath

\* while (currentDir !== root) { ... currentDir = path.dirname(currentDir) }
RECURSIVE findLoop(_, _, _)
findLoop(currentDir, root, dirs) ==
    IF currentDir = root THEN PathNull
    ELSE LET tsConfigPath == PathJoin(currentDir, TsConfigName)
         IN  IF ExistsTsConfig(tsConfigPath, dirs) THEN PathValue(tsConfigPath)
             ELSE findLoop(Dirname(currentDir), root, dirs)

\* findTsConfigFile(startPath)
findTsConfigFile(start, dirs) ==
    LET currentDir == Dirname(start)
        root == ParseRoot(currentDir)
    IN  findLoop(currentDir, root, dirs)

\* ---- the inputs the search is run on: absolute paths of source files
StartPaths == {
    <<"/", "m">>,
    <<"/", "a", "/", "m">>,
    <<"/", "a", "/", "b", "/", "m">>,
    <<"/", "c", "/", "b", "/", "m">> }

Directories == {
    <<"/">>,
    <<"/", "a">>,
    <<"/", "a", "/", "b">>,
    <<"/", "c">>,
    <<"/", "c", "/", "b">> }

FindInit ==
    /\ startPath \in StartPaths
    /\ tsConfigDirs \in SUBSET Directories
    /\ found = PathNotRun

Find ==
    /\ found = PathNotRun
    /\ found' = findTsConfigFile(startPath, tsConfigDirs)
    /\ UNCHANGED <<startPath, tsConfigDirs, notFindVars>>

(***************************************************************************)
(* TypeScript text.  A text is a sequence of lexical tokens (strings):     *)
(* keywords, punctuation, identifiers, string literals (written without    *)
(* their quotes), " " and "\n".  Files hold one statement per line.        *)
(***************************************************************************)
\* The module specifiers that occur: the string literals of the texts.
StringLiterals == {"m", "zod", "node", "node:path"}

\* The class \s of the regular expressions
IsWs(tok) == tok \in {" ", "\n"}

\* The token at an index, "" outside the text.
Tok(text, i) == IF i >= 1 /\ i <= Len(text) THEN text[i] ELSE ""

\* \s* from index i on: the first index not holding white space
RECURSIVE SkipWs(_, _)
SkipWs(text, i) ==
    IF i <= Len(text) /\ IsWs(text[i]) THEN SkipWs(text, i + 1) ELSE i

\* The first index >= i holding tok (0: none)
RECURSIVE IndexOf(_, _, _)
IndexOf(text, tok, i) ==
    IF i > Len(text) THEN 0
    ELSE IF text[i] = tok THEN i
    ELSE IndexOf(text, tok, i + 1)

\* The last index in lo..hi holding tok (0: none)
RECURSIVE LastIndexOf(_, _, _, _)
LastIndexOf(text, tok, lo, hi) ==
    IF hi < lo THEN 0
    ELSE IF text[hi] = tok THEN hi
    ELSE LastIndexOf(text, tok, lo, hi - 1)

\* The last index <= i not holding white space (0: none)
RECURSIVE LastNonWs(_, _)
LastNonWs(text, i) ==
    IF i < 1 THEN 0
    ELSE IF IsWs(text[i]) THEN LastNonWs(text, i - 1)
    ELSE i

\* String.prototype.trim
Trim(text) == SubSeq(text, SkipWs(text, 1), LastNonWs(text, Len(text)))

\* The string a token sequence spells.
RECURSIVE JoinText(_, _)
JoinText(text, i) ==
    IF i > Len(text) THEN "" ELSE text[i] \o JoinText(text, i + 1)

RECURSIVE NonEmptyTrimmed(_, _)
NonEmptyTrimmed(pieces, i) ==
    IF i > Len(pieces) THEN <<>>
    ELSE (IF Trim(pieces[i]) = <<>> THEN <<>> ELSE <<Trim(pieces[i])>>)
             \o NonEmptyTrimmed(pieces, i + 1)

\* namedImportsText.split(',').map((imp) => imp.trim()).filter((imp) => imp !== '')
NamedImportsOf(namedImportsText) ==
    NonEmptyTrimmed(SplitOn(namedImportsText, ",", 1, <<>>), 1)

\* The statements of a text, one per line (SourceFile.getStatements, and
\* the statements a text inserted by addStatements is parsed into).
ParseStatements(text) == NonEmptyTrimmed(SplitOn(text, "\n", 1, <<>>), 1)

\* statement.getKindName() === 'ImportDeclaration'
IsImportDeclaration(stmt) == Tok(stmt, 1) = "import"

(***************************************************************************)
(* The ts-morph SourceFile of the generated app router: a sequence of      *)
(* statements, each the token sequence of its text.                        *)
(***************************************************************************)
\* ImportDeclaration.getModuleSpecifierValue
ModuleSpecifierValue(decl) ==
    LET f == IndexOf(decl, "from", 1)
    IN  IF f # 0 THEN Tok(decl, SkipWs(decl, f + 1))
        ELSE Tok(decl, SkipWs(decl, 2))

\* The texts of the import specifiers between the braces of a declaration.
NamedImportTexts(decl) ==
    LET open == IndexOf(decl, "{", 1)
        close == IndexOf(decl, "}", 1)
    IN  IF open = 0 \/ close = 0 THEN <<>>
        ELSE NamedImportsOf(SubSeq(decl, open + 1, close - 1))

\* ImportSpecifier.getName: the imported name, not its local alias
SpecifierName(spec) ==
    LET words == SelectSeq(spec, LAMBDA t : ~IsWs(t))
    IN  IF Len(words) >= 2 /\ words[1] = "type" THEN words[2] ELSE words[1]

\* ImportSpecifier.getName of the specifiers of a declaration
GetNamedImports(decl) ==
    LET texts == NamedImportTexts(decl)
    IN  [i \in 1..Len(texts) |-> SpecifierName(texts[i])]

\* SourceFile.getImportDeclarations
GetImportDeclarations(file) == SelectSeq(file, IsImportDeclaration)

\* const existingImports = new Set<string>(): every module specifier and
\* every `${moduleSpecifier}:${namedImport.getName()}` of the file
ExistingImports(file) ==
    LET decls == GetImportDeclarations(file)
    IN  UNION { {ModuleSpecifierValue(decls[d])}
                \cup { ModuleSpecifierValue(decls[d]) \o ":" \o GetNamedImports(decls[d])[n] :
                         n \in 1..Len(GetNamedImports(decls[d])) } :
                d \in 1..Len(decls) }

\* The index of the last import declaration of the file (0: none)
RECURSIVE LastImportIndex(_, _)
LastImportIndex(file, i) ==
    IF i < 1 THEN 0
    ELSE IF IsImportDeclaration(file[i]) THEN i
    ELSE LastImportIndex(file, i - 1)

\* SourceFile.addImportDeclaration({ moduleSpecifier, namedImports: [namedImport] }):
\* printed after the last import declaration (at the top when there is none)
AddImportDeclaration(file, moduleSpecifier, namedImport) ==
    LET at == LastImportIndex(file, Len(file))
        decl == <<"import", " ", "{", " ">> \o namedImport
                    \o <<" ", "}", " ", "from", " ", moduleSpecifier, ";">>
    IN  SubSeq(file, 1, at) \o <<decl>> \o SubSeq(file, at + 1, Len(file))

\* ImportDeclaration.addNamedImport(namedImport): printed after the last
\* specifier; a declaration without braces gets them
AddNamedImport(decl, namedImport) ==
    LET open == IndexOf(decl, "{", 1)
        close == IndexOf(decl, "}", 1)
        from == IndexOf(decl, "from", 1)
    IN  IF open # 0 /\ close # 0
        THEN LET last == LastNonWs(decl, close - 1)
             IN  IF last = open
                 THEN SubSeq(decl, 1, open) \o <<" ">> \o namedImport \o <<" ">>
                          \o SubSeq(decl, close, Len(decl))
                 ELSE SubSeq(decl, 1, last) \o <<",", " ">> \o namedImport
                          \o SubSeq(decl, last + 1, Len(decl))
        ELSE IF from # 0
        THEN LET last == LastNonWs(decl, from - 1)
             IN  SubSeq(decl, 1, last) \o <<",", " ", "{", " ">> \o namedImport
                     \o <<" ", "}">> \o SubSeq(decl, last + 1, Len(decl))
        ELSE <<"import", " ", "{", " ">> \o namedImport \o <<" ", "}", " ", "from", " ">>
                 \o SubSeq(decl, SkipWs(decl, 2), Len(decl))

\* The index of the first import declaration of the module (0: none):
\* getImportDeclaration((decl) => decl.getModuleSpecifierValue() === moduleSpecifier)
RECURSIVE GetImportDeclaration(_, _, _)
GetImportDeclaration(file, moduleSpecifier, i) ==
    IF i > Len(file) THEN 0
    ELSE IF IsImportDeclaration(file[i]) /\ ModuleSpecifierValue(file[i]) = moduleSpecifier
         THEN i
    ELSE GetImportDeclaration(file, moduleSpecifier, i + 1)

(***************************************************************************)
(* TRPCGenerator.injectFilesContent                                        *)
(***************************************************************************)
\* The body of namedImports.forEach: st is the generated file together with
\* the existingImports set.
processNamedImport(st, moduleSpecifier, namedImport) ==
    LET importKey == moduleSpecifier \o ":" \o JoinText(namedImport, 1)
    IN  IF importKey \in st.existing THEN st
        ELSE IF moduleSpecifier \notin st.existing
        THEN [file |-> AddImportDeclaration(st.file, moduleSpecifier, namedImport),
              existing |-> st.existing \cup {moduleSpecifier, importKey}]
        ELSE LET at == GetImportDeclaration(st.file, moduleSpecifier, 1)
             IN  [file |-> IF at = 0 THEN st.file
                           ELSE [st.file EXCEPT ![at] = AddNamedImport(@, namedImport)],
                  existing |-> st.existing \cup {importKey}]

RECURSIVE processNamedImports(_, _, _, _)
processNamedImports(st, moduleSpecifier, namedImports, i) ==
    IF i > Len(namedImports) THEN st
    ELSE processNamedImports(processNamedImport(st, moduleSpecifier, namedImports[i]),
                             moduleSpecifier, namedImports, i + 1)

\* ---- the regex variant
\* A match of /import\s+{([^}]*)}\s+from\s+['"]([^'"]+)['"];?\s*/ at index i
MatchImportRegex(text, i) ==
    LET open == SkipWs(text, i + 1)
        close == IndexOf(text, "}", open + 1)
        from == SkipWs(text, close + 1)
        literal == SkipWs(text, from + 1)
        afterSemi == IF Tok(text, literal + 1) = ";" THEN literal + 2 ELSE literal + 1
    IN  [ok |-> /\ Tok(text, i) = "import"
                /\ open > i + 1
                /\ Tok(text, open) = "{"
                /\ close # 0
                /\ from > close + 1
                /\ Tok(text, from) = "from"
                /\ literal > from + 1
                /\ Tok(text, literal) \in StringLiterals,
         end |-> SkipWs(text, afterSemi),
         namedImportsText |-> SubSeq(text, open + 1, close - 1),
         moduleSpecifier |-> Tok(text, literal)]

\* processedImports.add(match[0]): a Set keeps one copy, in insertion order
AddToSet(set, elem) ==
    IF \E k \in 1..Len(set) : set[k] = elem THEN set ELSE Append(set, elem)

\* while ((match = importRegex.exec(fileContent)) !== null) { ... }
RECURSIVE scanImports(_, _, _, _)
scanImports(fileContent, i, st, processedImports) ==
    IF i > Len(fileContent) THEN [st |-> st, processedImports |-> processedImports]
    ELSE LET match == MatchImportRegex(fileContent, i)
         IN  IF match.ok
             THEN scanImports(fileContent, match.end,
                      processNamedImports(st, match.moduleSpecifier,
                                          NamedImportsOf(match.namedImportsText), 1),
                      AddToSet(processedImports, SubSeq(fileContent, i, match.end - 1)))
             ELSE scanImports(fileContent, i + 1, st, processedImports)

RECURSIVE FirstOccurrence(_, _, _)
FirstOccurrence(text, pattern, i) ==
    IF i + Len(pattern) - 1 > Len(text) THEN 0
    ELSE IF SubSeq(text, i, i + Len(pattern) - 1) = pattern THEN i
    ELSE FirstOccurrence(text, pattern, i + 1)

\* text.replace(pattern, ''), pattern a string: the first occurrence only
ReplaceFirst(text, pattern) ==
    LET at == FirstOccurrence(text, pattern, 1)
    IN  IF at = 0 THEN text
        ELSE SubSeq(text, 1, at - 1) \o SubSeq(text, at + Len(pattern), Len(text))

\* processedImports.forEach((importStatement) => nonImportContent =
\*     nonImportContent.replace(importStatement, ''))
RECURSIVE removeProcessedImports(_, _, _)
removeProcessedImports(content, processedImports, k) ==
    IF k > Len(processedImports) THEN content
    ELSE removeProcessedImports(ReplaceFirst(content, processedImports[k]),
                                processedImports, k + 1)

\* .replace(/;\s*;/g, ';')
RECURSIVE ReplaceDoubleSemicolons(_, _)
ReplaceDoubleSemicolons(text, i) ==
    IF i > Len(text) THEN <<>>
    ELSE IF text[i] = ";" /\ Tok(text, SkipWs(text, i + 1)) = ";"
         THEN <<";">> \o ReplaceDoubleSemicolons(text, SkipWs(text, i + 1) + 1)
    ELSE <<text[i]>> \o ReplaceDoubleSemicolons(text, i + 1)

\* .replace(/^\s*;/gm, '')
RECURSIVE RemoveLeadingSemicolons(_, _)
RemoveLeadingSemicolons(text, i) ==
    IF i > Len(text) THEN <<>>
    ELSE IF (i = 1 \/ text[i - 1] = "\n") /\ Tok(text, SkipWs(text, i)) = ";"
         THEN RemoveLeadingSemicolons(text, SkipWs(text, i) + 1)
    ELSE <<text[i]>> \o RemoveLeadingSemicolons(text, i + 1)

\* .replace(/\s*;\s*\n/g, '\n')
RECURSIVE RemoveTrailingSemicolons(_, _)
RemoveTrailingSemicolons(text, i) ==
    IF i > Len(text) THEN <<>>
    ELSE LET semi == SkipWs(text, i)
             newline == LastIndexOf(text, "\n", semi + 1, SkipWs(text, semi + 1) - 1)
         IN  IF Tok(text, semi) = ";" /\ newline # 0
             THEN <<"\n">> \o RemoveTrailingSemicolons(text, newline + 1)
             ELSE <<text[i]>> \o RemoveTrailingSemicolons(text, i + 1)

\* Clean up orphaned semicolons and extra whitespace, then trim
cleanContent(nonImportContent) ==
    Trim(RemoveTrailingSemicolons(
             RemoveLeadingSemicolons(
                 ReplaceDoubleSemicolons(nonImportContent, 1), 1), 1))

\* One file injected by the regex variant (the inner try block).
injectFileRegex(file, fileContent) ==
    LET scan == scanImports(fileContent, 1,
                    [file |-> file, existing |-> ExistingImports(file)], <<>>)
        nonImportContent == removeProcessedImports(fileContent, scan.processedImports, 1)
        cleanedContent == cleanContent(nonImportContent)
    IN  IF cleanedContent # <<>>
        THEN scan.st.file \o ParseStatements(cleanedContent)
        ELSE scan.st.file

\* ---- the AST variant
\* importDecl.getText().match(/from\s+['"]([^'"]+)['"]/)?.[1] || ''
RECURSIVE FromLiteral(_, _)
FromLiteral(text, i) ==
    IF i > Len(text) THEN ""
    ELSE IF /\ text[i] = "from"
            /\ SkipWs(text, i + 1) > i + 1
            /\ Tok(text, SkipWs(text, i + 1)) \in StringLiterals
         THEN Tok(text, SkipWs(text, i + 1))
    ELSE FromLiteral(text, i + 1)

\* importDecl.getText().match(/{([^}]*)}/): the text between the first "{"
\* and the next "}" ('' without a match)
FirstBraces(text) ==
    LET open == IndexOf(text, "{", 1)
        close == IF open = 0 THEN 0 ELSE IndexOf(text, "}", open + 1)
    IN  IF close = 0 THEN <<>> ELSE SubSeq(text, open + 1, close - 1)

\* fileToInject.getStatements().forEach((statement) => { ... })
RECURSIVE injectStatements(_, _, _)
injectStatements(st, statements, i) ==
    IF i > Len(statements) THEN st
    ELSE IF IsImportDeclaration(statements[i])
         THEN injectStatements(
                  processNamedImports(st, FromLiteral(statements[i], 1),
                                      NamedImportsOf(FirstBraces(statements[i])), 1),
                  statements, i + 1)
    ELSE injectStatements([st EXCEPT !.file = Append(@, statements[i])], statements, i + 1)

\* One file injected by the AST variant (the inner try block).
injectFileAst(file, fileContent) ==
    injectStatements([file |-> file, existing |-> ExistingImports(file)],
                     ParseStatements(fileContent), 1).file

\* ---- the project on disk
NamedImportLine(specifiers, moduleSpecifier) ==
    <<"import", " ", "{", " ">> \o specifiers
        \o <<" ", "}", " ", "from", " ", moduleSpecifier, ";", "\n">>

Dir_p_s == <<"/", "p", "/", "s", "/">>

\* The files that exist under /p/s, by absolute path, with their text.
FilesOnDisk ==
    (Dir_p_s \o <<"a">>) :> (NamedImportLine(<<"a">>, "m")
                               \o <<"S1", ";", "\n", "S2", ";", "\n">>)
 @@ (Dir_p_s \o <<"b">>) :> (NamedImportLine(<<"a", " ", "as", " ", "b">>, "m")
                               \o <<"S3", ";", "\n">>)
 @@ (Dir_p_s \o <<"c">>) :> (NamedImportLine(<<"a">>, "m") \o NamedImportLine(<<"a">>, "m")
                               \o <<"S4", ";", "\n">>)
 @@ (Dir_p_s \o <<"d">>) :> (NamedImportLine(<<"path">>, "node")
                               \o NamedImportLine(<<"join">>, "node:path")
                               \o <<"S5", ";", "\n">>)
 @@ (Dir_p_s \o <<"e">>) :> (<<"import", " ", "z", " ", "from", " ", "zod", ";", "\n">>
                               \o <<"S6", ";", "\n">>)
 @@ (Dir_p_s \o <<"f">>) :> <<"for(", ";", ";", ")", "S7", ";", "\n">>

\* fs.existsSync(resolvedPath) / project.addSourceFileAtPathIfExists
ExistsFile(path) == path \in DOMAIN FilesOnDisk

\* compilerOptions.paths of the project's tsconfig.json
TsConfigPaths ==
    << [alias |-> <<"@", "/", "*">>, targetsNull |-> FALSE,
        targets |-> << <<".", "/", "s", "/", "*">> >>] >>

\* The entries a user may list in injectFiles
InjectablePaths == {
    <<"@", "/", "a">>,
    <<".", "/", "s", "/", "b">>,
    Dir_p_s \o <<"c">>,
    <<"@", "/", "d">>,
    <<"@", "/", "e">>,
    <<"s", "/", "f">>,
    <<"@", "/", "z">> }

\* for (const filePath of filePaths) { ... }: the generated file and the log
RECURSIVE injectEach(_, _, _, _, _)
injectEach(variant, acc, filePaths, base, i) ==
    IF i > Len(filePaths) THEN acc
    ELSE LET resolvedPath == resolvePathWithAliases(filePaths[i], TsConfigPaths, base)
         IN  IF resolvedPath.kind = "path" /\ ExistsFile(resolvedPath.path)
             THEN injectEach(variant,
                      [file |-> IF variant = "regex"
                                THEN injectFileRegex(acc.file, FilesOnDisk[resolvedPath.path])
                                ELSE injectFileAst(acc.file, FilesOnDisk[resolvedPath.path]),
                       log |-> Append(acc.log, [filePath |-> filePaths[i],
                                                resolvedPath |-> resolvedPath.path,
                                                outcome |-> "injected"])],
                      filePaths, base, i + 1)
             ELSE injectEach(variant,
                      [file |-> acc.file,
                       log |-> Append(acc.log, [filePath |-> filePaths[i],
                                                resolvedPath |-> resolvedPath.path,
                                                outcome |-> "notFound"])],
                      filePaths, base, i + 1)

\* injectFilesContent(filePaths): variant is "regex" or "ast"; tsText tells
\* whether JSON.parse accepts the text of the tsconfig.json
injectFilesContent(variant, file, filePaths, callerPath, dirs, tsText) ==
    LET tsConfigFilePath == findTsConfigFile(callerPath, dirs)
    IN  IF tsConfigFilePath.kind # "path"
        THEN [file |-> file,
              log |-> << [filePath |-> <<>>, resolvedPath |-> <<>>, outcome |-> "noTsConfig"] >>]
        ELSE IF tsText # "valid"
        THEN [file |-> file,
              log |-> << [filePath |-> <<>>, resolvedPath |-> <<>>, outcome |-> "error"] >>]
        ELSE injectEach(variant, [file |-> file, log |-> <<>>], filePaths,
                        Dirname(tsConfigFilePath.path), 1)

\* ---- the inputs
MaxFiles == 2

\* The generated file before the injection: the static declaration, with
\* or without a schema import.
ImportDecl(specifiers, moduleSpecifier) ==
    <<"import", " ", "{", " ">> \o specifiers
        \o <<" ", "}", " ", "from", " ", moduleSpecifier, ";">>

SourceFilesBefore == {
    << ImportDecl(<<"z">>, "zod"), <<"T0", ";">> >>,
    << ImportDecl(<<"z">>, "zod"), ImportDecl(<<"a">>, "m"), <<"T0", ";">> >> }

InjectInit ==
    /\ version \in {"regex", "ast"}
    /\ moduleCallerFilePath = Dir_p_s \o <<"m">>
    /\ tsConfigDirs \in { {<<"/", "p">>}, {<<"/">>}, {} }
    /\ tsConfigText \in {"valid", "invalid"}
    /\ injectFiles \in UNION { [1..n -> InjectablePaths] : n \in 1..MaxFiles }
    /\ sourceFile0 \in SourceFilesBefore
    /\ appRouterSourceFile = sourceFile0
    /\ injectLog = <<>>
    /\ injectPc = "start"
    /\ startPath = <<>>
    /\ found = PathNotRun

InjectFilesContentRegex ==
    /\ injectPc = "start"
    /\ version = "regex"
    /\ LET r == injectFilesContent("regex", appRouterSourceFile, injectFiles,
                                   moduleCallerFilePath, tsConfigDirs, tsConfigText)
       IN  /\ appRouterSourceFile' = r.file
           /\ injectLog' = r.log
    /\ injectPc' = "done"
    /\ UNCHANGED <<version, moduleCallerFilePath, tsConfigText, injectFiles, sourceFile0,
                   notInjectVars>>

InjectFilesContentAst ==
    /\ injectPc = "start"
    /\ version = "ast"
    /\ LET r == injectFilesContent("ast", appRouterSourceFile, injectFiles,
                                   moduleCallerFilePath, tsConfigDirs, tsConfigText)
       IN  /\ appRouterSourceFile' = r.file
           /\ injectLog' = r.log
    /\ injectPc' = "done"
    /\ UNCHANGED <<version, moduleCallerFilePath, tsConfigText, injectFiles, sourceFile0,
                   notInjectVars>>

(***************************************************************************)
(* TRPCGenerator.generateSchemaFile                                        *)
(***************************************************************************)
\* How many times generateSchemaFile is called on one TRPCGenerator.
MaxCalls == 2

\* const appRouter = t.router({${routersStringDeclarations}});
AppRouterStatement ==
    <<"const", " ", "appRouter", " ", "=", " ", "t.router", "(", "{", "R", "}", ")", ";">>

\* export type AppRouter = typeof appRouter;
AppRouterTypeExport ==
    <<"export", " ", "type", " ", "AppRouter", " ", "=", " ", "typeof", " ", "appRouter", ";">>

\* The statement of the static declaration (const t = initTRPC.create() ...)
StaticStatement == <<"T0", ";">>

\* SourceFile.addStatements: the statements are printed at the end of the file
AddStatements(file, statements) == file \o statements

\* StaticGenerator.generateStaticDeclaration(sourceFile): the static import
\* and declaration are added to the file it is given.
generateStaticDeclaration(file) ==
    AddStatements(AddImportDeclaration(file, "zod", <<"z">>), <<StaticStatement>>)

\* StaticGenerator.addSchemaImports(sourceFile, schemaImportNames, importsMap):
\* one import declaration for each schema name.
RECURSIVE addSchemaImports(_, _, _)
addSchemaImports(file, schemaImportNames, i) ==
    IF i > Len(schemaImportNames) THEN file
    ELSE addSchemaImports(AddImportDeclaration(file, "m", <<schemaImportNames[i]>>),
                          schemaImportNames, i + 1)

\* saveOrOverrideFile(sourceFile): the file on disk holds the source file
saveOrOverrideFile(file) == [saved |-> TRUE, file |-> file]
NotSaved == [saved |-> FALSE, file |-> <<>>]

\* Where a call raises an error ("none": nowhere): in routerFactory.getRouters
\* or procedureFactory.getProcedures, in the static generator, in the router
\* serializer, or in the save.
ErrorPoints ==
    {"none", "getRouters", "generateStaticDeclaration", "serializeRouters",
     "saveOrOverrideFile"}

\* The element of a set of one element: S = { e(x) : x \in {v} } gives e for
\* the value v, computed once.
TheOne(S) == CHOOSE x \in S : TRUE

\* A run that appends the appRouter declaration first and injects the files
\* after it.
tryInjectAfterAppRouter(variant, file, disk, schemaImps, injFiles, errorAt, callerPath, dirs, tsText) ==
    LET afterStatic == generateStaticDeclaration(file)
        afterSchema == IF Len(schemaImps) > 0
                       THEN addSchemaImports(afterStatic, schemaImps, 1)
                       ELSE afterStatic
        afterAdd == AddStatements(afterSchema, <<AppRouterStatement, AppRouterTypeExport>>)
        injected == IF Len(injFiles) > 0
                    THEN injectFilesContent(variant, afterAdd, injFiles,
                                            callerPath, dirs, tsText)
                    ELSE [file |-> afterAdd, log |-> <<>>]
        built == <<"getRouters", "generateStaticDeclaration">>
                     \o (IF Len(schemaImps) > 0 THEN <<"addSchemaImports">> ELSE <<>>)
                     \o <<"serializeRouters", "addStatements">>
                     \o (IF Len(injFiles) > 0 THEN <<"injectFilesContent">> ELSE <<>>)
    IN  IF errorAt = "none"
        THEN [thrown |-> FALSE, file |-> injected.file,
              disk |-> saveOrOverrideFile(injected.file),
              trace |-> built \o <<"saveOrOverrideFile", "log">>, log |-> injected.log]
        ELSE [thrown |-> TRUE, file |-> file, disk |-> disk, trace |-> <<>>, log |-> <<>>]

\* The try block of generateSchemaFile: the file it leaves, the file on
\* disk, the calls it completed in order, the log of the injection, and
\* whether it raised an error.
generateSchemaFileTry(variant, file, disk, schemaImps, injFiles, errorAt, callerPath, dirs, tsText) ==
    LET afterStatic == generateStaticDeclaration(file)
        afterSchema == IF Len(schemaImps) > 0
                       THEN addSchemaImports(afterStatic, schemaImps, 1)
                       ELSE afterStatic
        built == <<"getRouters", "generateStaticDeclaration">>
                     \o (IF Len(schemaImps) > 0 THEN <<"addSchemaImports">> ELSE <<>>)
                     \o (IF Len(injFiles) > 0 THEN <<"injectFilesContent">> ELSE <<>>)
        \* lines 114-134, on the file and the log the injection left
        rest(injected) ==
            IF errorAt = "serializeRouters"
            THEN [thrown |-> TRUE, file |-> injected.file, disk |-> disk,
                  trace |-> built, log |-> injected.log]
            ELSE TheOne({
                IF errorAt = "saveOrOverrideFile"
                THEN [thrown |-> TRUE, file |-> afterAdd, disk |-> disk,
                      trace |-> built \o <<"serializeRouters", "addStatements">>,
                      log |-> injected.log]
                ELSE [thrown |-> FALSE, file |-> afterAdd,
                      disk |-> saveOrOverrideFile(afterAdd),
                      trace |-> built \o <<"serializeRouters", "addStatements",
                                           "saveOrOverrideFile", "log">>,
                      log |-> injected.log] :
                afterAdd \in { AddStatements(injected.file,
                                   <<AppRouterStatement, AppRouterTypeExport>>) } })
    IN  IF errorAt = "getRouters"
        THEN [thrown |-> TRUE, file |-> file, disk |-> disk,
              trace |-> <<>>, log |-> <<>>]
        ELSE IF errorAt = "generateStaticDeclaration"
        THEN [thrown |-> TRUE, file |-> file, disk |-> disk,
              trace |-> <<"getRouters">>, log |-> <<>>]
        ELSE TheOne({ rest(injected) :
                 injected \in { IF Len(injFiles) > 0
                                THEN injectFilesContent(variant, afterSchema, injFiles,
                                                        callerPath, dirs, tsText)
                                ELSE [file |-> afterSchema, log |-> <<>>] } })

\* generateSchemaFile without its catch block: the error leaves the function.
generateSchemaFileNoCatch(variant, file, disk, schemaImps, injFiles, errorAt, callerPath, dirs, tsText) ==
    TheOne({ [file |-> r.file, disk |-> r.disk, log |-> r.log, trace |-> r.trace,
              settled |-> IF r.thrown THEN "rejected" ELSE "resolved"] :
             r \in { generateSchemaFileTry(variant, file, disk, schemaImps, injFiles,
                                           errorAt, callerPath, dirs, tsText) } })

\* generateSchemaFile(schemaImports, injectFiles): the try block, and
\* consoleLogger.warn in the catch block; the promise resolves either way.
generateSchemaFile(variant, file, disk, schemaImps, injFiles, errorAt, callerPath, dirs, tsText) ==
    TheOne({ [file |-> r.file, disk |-> r.disk, log |-> r.log,
              trace |-> IF r.thrown THEN Append(r.trace, "warn") ELSE r.trace,
              settled |-> "resolved"] :
             r \in { generateSchemaFileTry(variant, file, disk, schemaImps, injFiles,
                                           errorAt, callerPath, dirs, tsText) } })

\* ---- the inputs
\* The entries of injectFiles in the generation runs
GenInjectablePaths == { <<"@", "/", "a">>, <<".", "/", "s", "/", "b">>, <<"@", "/", "z">> }

GenNoRun ==
    [errorAt |-> "none", before |-> <<>>, savedBefore |-> NotSaved,
     trace |-> <<>>, settled |-> "none"]

GenInit ==
    /\ version \in {"regex", "ast"}
    /\ moduleCallerFilePath = Dir_p_s \o <<"m">>
    /\ tsConfigDirs = {<<"/", "p">>}
    /\ tsConfigText \in {"valid", "invalid"}
    /\ injectFiles \in UNION { [1..n -> GenInjectablePaths] : n \in 0..MaxFiles }
    /\ schemaImports \in { <<>>, <<"a">> }
    /\ sourceFile0 = <<>>
    /\ appRouterSourceFile = <<>>
    /\ injectLog = <<>>
    /\ injectPc = "idle"
    /\ startPath = <<>>
    /\ found = PathNotRun
    /\ savedFile = NotSaved
    /\ genCalls = 0
    /\ genFailures = 0
    /\ genRun = GenNoRun

\* One call of generateSchemaFile, awaited to its end.
GenerateSchemaFile ==
    /\ genCalls < MaxCalls
    /\ \E errorAt \in ErrorPoints :
          \E r \in { generateSchemaFile(version, appRouterSourceFile, savedFile,
                                       schemaImports, injectFiles, errorAt,
                                       moduleCallerFilePath, tsConfigDirs, tsConfigText) } :
              /\ appRouterSourceFile' = r.file
              /\ savedFile' = r.disk
              /\ injectLog' = r.log
              /\ genRun' = [errorAt |-> errorAt, before |-> appRouterSourceFile,
                            savedBefore |-> savedFile, trace |-> r.trace,
                            settled |-> r.settled]
              /\ genFailures' = genFailures + (IF errorAt = "none" THEN 0 ELSE 1)
    /\ genCalls' = genCalls + 1
    /\ UNCHANGED <<version, moduleCallerFilePath, tsConfigText, injectFiles, sourceFile0,
                   injectPc, schemaImports, hostVars, pathVars, findVars>>

(***************************************************************************)
(* Idle values of the parts a specification does not exercise.             *)
(***************************************************************************)
PathIdle ==
    /\ filePath = <<>>
    /\ pathAliases = <<>>
    /\ basePath = <<>>
    /\ resolved = PathNotRun

FindIdle ==
    /\ startPath = <<>>
    /\ tsConfigDirs = {}
    /\ found = PathNotRun

InjectIdle ==
    /\ version = "none"
    /\ moduleCallerFilePath = <<>>
    /\ tsConfigText = "none"
    /\ injectFiles = <<>>
    /\ appRouterSourceFile = <<>>
    /\ sourceFile0 = <<>>
    /\ injectLog = <<>>
    /\ injectPc = "idle"

GenIdle ==
    /\ schemaImports = <<>>
    /\ savedFile = NotSaved
    /\ genCalls = 0
    /\ genFailures = 0
    /\ genRun = GenNoRun

(***************************************************************************)
(* Specification of the host: any sequence of operations on AppRouterHost  *)
(* and of the panel controller's hooks.                                    *)
(***************************************************************************)
HostInit == HostIdle /\ PathIdle /\ FindIdle /\ InjectIdle /\ GenIdle

SpecHost == HostInit /\ [][HostNext]_vars

\* C1: whenever isRouterReady() is (or was last answered) true, the appRouter
\* getter returns a router and does not throw, and a /panel request, which
\* checks isRouterReady() before reading the getter, never ends in the getter's
\* exception.
C1_ReadyImpliesGetterReturns ==
    /\ isRouterReady(appRouterField) => appRouterGetter(appRouterField) \in Routers
    /\ (lastCall.op = "isRouterReady" /\ lastCall.result = "true")
          => appRouterGetter(appRouterField) \in Routers
    /\ panelResponse # "exception"

C1_Witness ==
    /\ lastCall.op = "isRouterReady"
    /\ lastCall.result = "true"
    /\ panelResponse = "panel"
    /\ ctrlAppRouter \in Routers

C2_State ==
    /\ appRouterGetter(appRouterField) = Throws <=> setHistory = <<>>
    /\ setHistory # <<>> => appRouterGetter(appRouterField) = LastSet
    /\ lastCall.op = "get" =>
          lastCall.result = (IF setHistory = <<>> THEN Throws ELSE LastSet)

C2_ThrowingReadChangesNothing ==
    (lastCall'.op = "get" /\ lastCall'.result = Throws)
        => (appRouterField' = appRouterField /\ setHistory' = setHistory)

\* C2: the appRouter getter throws exactly when no router has been set so far,
\* returns the most recently set router after one or more sets, and a read
\* that throws leaves the host's state unchanged.
C2_GetterThrowsIffUnset == []C2_State /\ [][C2_ThrowingReadChangesNothing]_vars

C2_Witness ==
    /\ Len(setHistory) >= 2
    /\ setHistory[1] # LastSet
    /\ lastCall = [op |-> "get", result |-> LastSet]

\* C3: getRouterSafe() never throws; it returns undefined while no router has
\* been set and the most recently set router otherwise, and it agrees with the
\* appRouter getter wherever the getter does not throw.
C3_GetRouterSafe ==
    /\ getRouterSafe(appRouterField) # Throws
    /\ getRouterSafe(appRouterField) = LastSet
    /\ appRouterGetter(appRouterField) # Throws
          => getRouterSafe(appRouterField) = appRouterGetter(appRouterField)
    /\ lastCall.op = "getRouterSafe" => lastCall.result = LastSet

C3_Witness ==
    /\ lastCall.op = "getRouterSafe"
    /\ lastCall.result \in Routers
    /\ Len(setHistory) >= 2
    /\ setHistory[1] # LastSet

(***************************************************************************)
(* Specification of the resolver: it is run once on each input.            *)
(***************************************************************************)
PathSpecInit == PathInit /\ HostIdle /\ FindIdle /\ InjectIdle /\ GenIdle

SpecPath == PathSpecInit /\ [][Resolve]_vars

\* A mapping of the form 'A/*' -> ['T/*', ...]
IsStarMapping(e) ==
    /\ Len(e.alias) > 2
    /\ StripStar(e.alias) # e.alias
    /\ ~e.targetsNull
    /\ Len(e.targets) > 0
    /\ StripStar(e.targets[1]) # e.targets[1]

\* C7: for a mapping 'A/*' -> ['T/*', ...] of the tsconfig and a non-absolute
\* path 'A/<rest>', the resolver returns path.resolve(basePath, 'T/<rest>').
C7_AliasResolution ==
    resolved # PathNotRun =>
        \A i \in 1..Len(pathAliases) :
            (/\ IsStarMapping(pathAliases[i])
             /\ ~IsAbsolute(filePath)
             /\ StartsWith(filePath, StripStar(pathAliases[i].alias)))
            => resolved = PathValue(PathResolve(basePath,
                   StripStar(pathAliases[i].targets[1])
                       \o Slice(filePath, Len(StripStar(pathAliases[i].alias)))))

\* C8: a path starting with './' or '../' resolves to
\* path.resolve(basePath, filePath), whatever the path aliases are.
C8_RelativePaths ==
    (/\ resolved # PathNotRun
     /\ StartsWith(filePath, <<".", "/">>) \/ StartsWith(filePath, <<".", ".", "/">>))
    => resolved = PathValue(PathResolve(basePath, filePath))

\* C9: an absolute filePath is returned unchanged, whatever the path aliases
\* and the basePath are.
C9_AbsoluteAsIs ==
    (resolved # PathNotRun /\ IsAbsolute(filePath)) => resolved = PathValue(filePath)

C9_Witness ==
    /\ resolved = PathValue(filePath)
    /\ filePath = <<"/", "r", "/", ".", ".", "/", "x">>
    /\ \E i \in 1..Len(pathAliases) :
          StartsWith(filePath, StripStar(pathAliases[i].alias))

\* The call raises an error inside the try block: the path is not absolute
\* and the loop reaches an entry whose value is null before an entry with a
\* target matches the path.
ResolutionRaises ==
    /\ ~IsAbsolute(filePath)
    /\ \E i \in 1..Len(pathAliases) :
          /\ pathAliases[i].targetsNull
          /\ \A j \in 1..(i - 1) :
                /\ ~pathAliases[j].targetsNull
                /\ \/ Len(pathAliases[j].targets) = 0
                   \/ ~StartsWith(filePath, StripStar(pathAliases[j].alias))

\* C11: for an absolute basePath the resolver returns null or an absolute
\* path, and it returns null only when the resolution raised an error.
C11_NullOrAbsolute ==
    resolved # PathNotRun =>
        /\ resolved.kind \in {"path", "null"}
        /\ resolved.kind = "path" => IsAbsolute(resolved.path)
        /\ resolved.kind = "null" => ResolutionRaises

C11_Witness ==
    /\ resolved = PathNull
    /\ ResolutionRaises
    /\ Len(pathAliases) = 2
    /\ ~pathAliases[1].targetsNull

\* The paths objects that hold the entries of a given one in any order.
Reordered(aliases) ==
    { [i \in 1..Len(aliases) |-> aliases[p[i]]] :
        p \in { q \in [1..Len(aliases) -> 1..Len(aliases)] :
                  \A i, j \in 1..Len(aliases) : i # j => q[i] # q[j] } }

\* C14: the resolved path is the same for every order in which the entries
\* of the paths object are listed, also when several prefixes match.
C14_AliasOrderIndependent ==
    resolved # PathNotRun =>
        \A m \in Reordered(pathAliases) :
            resolvePathWithAliases(filePath, m, basePath) = resolved

(***************************************************************************)
(* Specification of the tsconfig search: it is run once on each input.     *)
(***************************************************************************)
FindSpecInit == FindInit /\ HostIdle /\ PathIdle /\ InjectIdle /\ GenIdle

SpecFind == FindSpecInit /\ [][Find]_vars

\* The directories from dir up to the file system root, nearest first.
RECURSIVE ChainToRoot(_)
ChainToRoot(dir) ==
    IF dir = <<"/">> THEN <<dir>> ELSE <<dir>> \o ChainToRoot(Dirname(dir))

\* The first directory of a chain that holds a tsconfig.json (0: none).
RECURSIVE NearestWithTsConfig(_, _, _)
NearestWithTsConfig(chain, dirs, i) ==
    IF i > Len(chain) THEN 0
    ELSE IF chain[i] \in dirs THEN i
    ELSE NearestWithTsConfig(chain, dirs, i + 1)

\* C10: findTsConfigFile returns the tsconfig.json of the nearest directory, on
\* the chain from dirname(startPath) up to the file system root, that holds
\* one, and null if and only if no directory of the chain holds one.
C10_NearestTsConfig ==
    found # PathNotRun =>
        LET chain == ChainToRoot(Dirname(startPath))
            n == NearestWithTsConfig(chain, tsConfigDirs, 1)
        IN  /\ (found = PathNull) <=> (n = 0)
            /\ n # 0 => found = PathValue(PathJoin(chain[n], TsConfigName))

(***************************************************************************)
(* Specification of the injection: injectFilesContent is run once on each  *)
(* project, list of files and generated file, by either variant.           *)
(***************************************************************************)
InjectSpecInit == InjectInit /\ HostIdle /\ PathIdle /\ GenIdle

SpecInject == InjectSpecInit /\ [][InjectFilesContentRegex \/ InjectFilesContentAst]_vars

\* The default import of a declaration ("" when it has none).
DefaultImport(decl) ==
    LET word == Tok(decl, SkipWs(decl, 2))
    IN  IF word \in {"{", "*", ""} \cup StringLiterals THEN "" ELSE word

\* No (module specifier, imported name) pair is imported twice by the file.
NoDuplicateImports(file) ==
    LET decls == GetImportDeclarations(file)
    IN  \A d1, d2 \in 1..Len(decls) :
            \A n1 \in 1..Len(GetNamedImports(decls[d1])) :
                \A n2 \in 1..Len(GetNamedImports(decls[d2])) :
                    (/\ ModuleSpecifierValue(decls[d1]) = ModuleSpecifierValue(decls[d2])
                     /\ GetNamedImports(decls[d1])[n1] = GetNamedImports(decls[d2])[n2])
                    => (d1 = d2 /\ n1 = n2)

\* C4: after injectFilesContent the generated file imports no (module
\* specifier, imported name) pair more than once.
C4_NoDuplicateImports ==
    injectPc = "done" => NoDuplicateImports(appRouterSourceFile)

\* The file imports the name from the module.
ImportsName(file, moduleSpecifier, name) ==
    \E d \in 1..Len(file) :
        /\ IsImportDeclaration(file[d])
        /\ ModuleSpecifierValue(file[d]) = moduleSpecifier
        /\ \E n \in 1..Len(GetNamedImports(file[d])) : GetNamedImports(file[d])[n] = name

\* The file has the default import from the module.
ImportsDefault(file, moduleSpecifier, local) ==
    \E d \in 1..Len(file) :
        /\ IsImportDeclaration(file[d])
        /\ ModuleSpecifierValue(file[d]) = moduleSpecifier
        /\ DefaultImport(file[d]) = local

\* Every import the text declares is available in the file.
ImportsPreserved(file, text) ==
    LET decls == GetImportDeclarations(ParseStatements(text))
    IN  \A d \in 1..Len(decls) :
            /\ \A n \in 1..Len(GetNamedImports(decls[d])) :
                   ImportsName(file, ModuleSpecifierValue(decls[d]),
                               GetNamedImports(decls[d])[n])
            /\ DefaultImport(decls[d]) # ""
                   => ImportsDefault(file, ModuleSpecifierValue(decls[d]),
                                     DefaultImport(decls[d]))

\* C5: after a file has been injected without error, every import the file
\* declares is available in the generated file (a named import is left out
\* only when the generated file already imports that name from that module).
C5_ImportsPreserved ==
    injectPc = "done" =>
        \A i \in 1..Len(injectLog) :
            injectLog[i].outcome = "injected"
                => ImportsPreserved(appRouterSourceFile, FilesOnDisk[injectLog[i].resolvedPath])

\* A statement without its closing semicolon and trailing white space.
RECURSIVE StatementCore(_)
StatementCore(stmt) ==
    IF stmt # <<>> /\ (stmt[Len(stmt)] = ";" \/ IsWs(stmt[Len(stmt)]))
    THEN StatementCore(SubSeq(stmt, 1, Len(stmt) - 1))
    ELSE stmt

\* The non-import statements of a file, in order.
NonImportStatements(file) ==
    LET others == SelectSeq(file, LAMBDA stmt : ~IsImportDeclaration(stmt))
    IN  [k \in 1..Len(others) |-> StatementCore(others[k])]

\* The non-import statements of the listed files that resolve (against the
\* directory of /p/tsconfig.json) to an existing file, in list order.
RECURSIVE ListedStatements(_, _)
ListedStatements(filePaths, i) ==
    IF i > Len(filePaths) THEN <<>>
    ELSE LET path == PathResolve(<<"/", "p">>,
                         IF StartsWith(filePaths[i], <<"@", "/">>)
                         THEN <<".", "/", "s", "/">> \o Slice(filePaths[i], 2)
                         ELSE filePaths[i])
         IN  (IF path \in DOMAIN FilesOnDisk
              THEN NonImportStatements(ParseStatements(FilesOnDisk[path]))
              ELSE <<>>) \o ListedStatements(filePaths, i + 1)

\* The tsconfig.json was found and read.
TsConfigRead ==
    \A i \in 1..Len(injectLog) : injectLog[i].outcome \in {"injected", "notFound"}

\* C6: the non-import statements of every listed file that resolves to an
\* existing file are appended to the generated file exactly once, in the
\* file's statement order, the files in the order of injectFiles.
C6_ContentAndOrder ==
    (injectPc = "done" /\ TsConfigRead) =>
        NonImportStatements(appRouterSourceFile)
            = NonImportStatements(sourceFile0) \o ListedStatements(injectFiles, 1)

(***************************************************************************)
(* Specification of the generation: generateSchemaFile is called up to     *)
(* MaxCalls times on one TRPCGenerator, with the same options, each call   *)
(* awaited before the next.                                                *)
(***************************************************************************)
GenSpecInit == GenInit /\ HostIdle /\ PathIdle

SpecGenerate == GenSpecInit /\ [][GenerateSchemaFile]_vars

\* The positions of an event in the calls a run completed.
Positions(trace, event) == { i \in 1..Len(trace) : trace[i] = event }

\* C12: a call of generateSchemaFile never rejects; an error raised while
\* collecting the routers, generating the static declaration, serializing
\* the routers or saving is reported with consoleLogger.warn; the success
\* message is logged only after the save has completed; after an error
\* raised before the save the file on disk is what it was.
C12_NeverRejects ==
    genCalls >= 1 =>
        /\ genRun.settled = "resolved"
        /\ genRun.errorAt # "none" =>
              /\ Positions(genRun.trace, "warn") = {Len(genRun.trace)}
              /\ Positions(genRun.trace, "log") = {}
        /\ genRun.errorAt = "none" => Positions(genRun.trace, "warn") = {}
        /\ \A i \in Positions(genRun.trace, "log") :
              \E j \in Positions(genRun.trace, "saveOrOverrideFile") : j < i
        /\ genRun.errorAt \in {"getRouters", "generateStaticDeclaration", "serializeRouters"} =>
              /\ Positions(genRun.trace, "saveOrOverrideFile") = {}
              /\ savedFile = genRun.savedBefore

C12_Witness ==
    /\ genCalls = 2
    /\ genRun.errorAt = "serializeRouters"
    /\ genRun.trace[Len(genRun.trace)] = "warn"
    /\ genRun.savedBefore.saved
    /\ savedFile = genRun.savedBefore
    /\ savedFile.file # appRouterSourceFile

\* The calls of a successful run, in the order the claim lists them.
ExpectedTrace ==
    <<"getRouters", "generateStaticDeclaration">>
        \o (IF Len(schemaImports) > 0 THEN <<"addSchemaImports">> ELSE <<>>)
        \o (IF Len(injectFiles) > 0 THEN <<"injectFilesContent">> ELSE <<>>)
        \o <<"serializeRouters", "addStatements", "saveOrOverrideFile", "log">>

\* The statements of the listed files that can be injected.
InjectableStatements ==
    { ListedStatements(injectFiles, 1)[k] : k \in 1..Len(ListedStatements(injectFiles, 1)) }

Count(file, stmt) == Cardinality({ i \in 1..Len(file) : file[i] = stmt })

\* The generated file after a single call with the options of the generator.
FirstGeneration ==
    generateSchemaFile(version, <<>>, NotSaved, schemaImports, injectFiles, "none",
                       moduleCallerFilePath, tsConfigDirs, tsConfigText).file

\* C15: after any number n >= 1 of successful calls with the same routers and
\* options the generated file holds one 'const appRouter' declaration, one
\* 'AppRouter' type export and each injected statement as often as the listed
\* files give it: the content a single call leaves.
C15_RegenerationIdempotent ==
    (genCalls >= 1 /\ genFailures = 0) =>
        /\ Count(appRouterSourceFile, AppRouterStatement) = 1
        /\ Count(appRouterSourceFile, AppRouterTypeExport) = 1
        /\ \A stmt \in InjectableStatements :
              Count(NonImportStatements(appRouterSourceFile), stmt)
                  = Count(NonImportStatements(FirstGeneration), stmt)
        /\ appRouterSourceFile = FirstGeneration

====
